---- MODULE Spec2Model ----
(***************************************************************************)
(* Schema inference engine of src/bin/schema_extraction.rs: the leaf       *)
(* inferencer (infer_schema), the aggregate merger (SchemaNode::merge),    *)
(* the emitter (SchemaNode::to_json_schema_with_config) and the fold that  *)
(* write_schema_file runs over the samples of one grouping key; the        *)
(* collection and output phases of the schema_extraction binary; and the   *)
(* AgentSession of src/session.rs with the process and the reader threads  *)
(* of src/process.rs and src/stream.rs.                                    *)
(***************************************************************************)
EXTENDS Integers, Sequences, FiniteSets, TLC

\* write_schema_file: the sample slice, the aggregate, the document
VARIABLES values, schema, doc, config, pc

\* schema_extraction: the log lines, the line being read, the
\* SampleCollection, the parsed Config, the output directory, the files
\* the first run wrote, and the phase of the run
VARIABLES lines, pos, collection, args, files, first, phase

\* AgentSession: its fields; per spawned process its child's remaining
\* output, its channel and its two reader threads; the EventIterator that
\* borrows the session; the calling thread; the number of processes spawned
VARIABLES session, channels, iterator, caller, spawned

engineVars == <<values, schema, doc, config, pc>>

extractVars == <<lines, pos, collection, args, files, first, phase>>

sessionVars == <<session, channels, iterator, caller, spawned>>

vars == <<engineVars, extractVars, sessionVars>>

(* ------------------------------ bounds --------------------------------- *)

\* longest sample slice handed to write_schema_file
MaxSamples == 3

\* longest JSON array among the samples
MaxArrayLen == 2

(* ------------------------- program constants --------------------------- *)

DEFAULT_ENUM_THRESHOLD == 10

DEFAULT_MIN_ENUM_SAMPLES == 3

(* ----------------------- serde_json::Value model ----------------------- *)

\* serde_json::Map with no entries; also the empty schema object
EmptyMap == [k \in {} |-> 0]

JNull == [kind |-> "null"]

JBool(b) == [kind |-> "bool", b |-> b]

\* serde_json::Number keeps one of the variants PosInt(u64), NegInt(i64),
\* Float(f64); n is that variant's name
JNumber(n) == [kind |-> "number", n |-> n]

JString(s) == [kind |-> "string", s |-> s]

JArray(arr) == [kind |-> "array", arr |-> arr]

JObject(obj) == [kind |-> "object", obj |-> obj]

\* Number::is_i64() || Number::is_u64(): true of both integer variants,
\* false of Float (a float literal such as 1.0 or 3.14, or an integer
\* literal too large for u64)
is_integer(n) == n \in {"PosInt", "NegInt"}

\* iteration order of BTreeSet<String> / BTreeMap<String, _>: ascending
\* byte order of the strings the model uses
LexOrder ==
  <<"array", "boolean", "id", "integer", "name", "null", "number",
    "object", "string", "x", "y", "z">>

Rank(s) == CHOOSE i \in 1..Len(LexOrder) : LexOrder[i] = s

RECURSIVE iter(_)
\* the elements of a BTreeSet<String> in iteration order
iter(S) ==
  IF S = {} THEN <<>>
  ELSE LET m == CHOOSE x \in S : \A y \in S : Rank(x) <= Rank(y)
       IN <<m>> \o iter(S \ {m})

(* ------------------------------ SchemaNode ----------------------------- *)

NumericInfo_default == [all_integer |-> FALSE, count |-> 0]

\* items is Option<Box<SchemaNode>>: <<>> is None, <<n>> is Some(n)
SchemaNode_new ==
  [types |-> {}, properties |-> EmptyMap, required |-> {}, items |-> <<>>,
   seen_count |-> 0, string_values |-> {},
   numeric_info |-> NumericInfo_default]

\* merge_types with the incoming set assigned instead of inserted
merge_types_overwrite(self, other) == other.types

\* merge_types without the insertion of the incoming tags
merge_types_keep_self(self, other) == self.types

merge_types(self, other) == self.types \cup other.types

\* merge_required with the later merges taking the union
merge_required_union(self, other) ==
  IF self.seen_count = 0 THEN other.required
  ELSE self.required \cup other.required

\* merge_required without the seeding of the first merge
merge_required_unseeded(self, other) == self.required \cap other.required

merge_required(self, other) ==
  IF self.seen_count = 0 THEN other.required
  ELSE self.required \cap other.required

\* merge_string_values without the insertion of the incoming strings
merge_string_values_keep_self(self, other) == self.string_values

merge_string_values(self, other) ==
  self.string_values \cup other.string_values

\* merge_numeric_info with all_integer overwritten by the incoming node's
merge_numeric_info_latest(self, other) ==
  IF other.numeric_info.count > 0
  THEN IF self.numeric_info.count = 0
       THEN other.numeric_info
       ELSE [all_integer |-> other.numeric_info.all_integer,
             count |-> self.numeric_info.count + other.numeric_info.count]
  ELSE self.numeric_info

\* merge_numeric_info with the two flags joined by "or"
merge_numeric_info_or(self, other) ==
  IF other.numeric_info.count > 0
  THEN IF self.numeric_info.count = 0
       THEN other.numeric_info
       ELSE [all_integer |-> self.numeric_info.all_integer
                               \/ other.numeric_info.all_integer,
             count |-> self.numeric_info.count + other.numeric_info.count]
  ELSE self.numeric_info

\* merge_numeric_info without the copy into a node that has no number yet
merge_numeric_info_unseeded(self, other) ==
  IF other.numeric_info.count > 0
  THEN [all_integer |-> self.numeric_info.all_integer
                          /\ other.numeric_info.all_integer,
        count |-> self.numeric_info.count + other.numeric_info.count]
  ELSE self.numeric_info

merge_numeric_info(self, other) ==
  IF other.numeric_info.count > 0
  THEN IF self.numeric_info.count = 0
       THEN other.numeric_info
       ELSE [all_integer |-> self.numeric_info.all_integer
                               /\ other.numeric_info.all_integer,
             count |-> self.numeric_info.count + other.numeric_info.count]
  ELSE self.numeric_info

\* merge_seen_count adding the incoming node's count
merge_seen_count_sum(self, other) == self.seen_count + other.seen_count

merge_seen_count(self, other) == self.seen_count + 1

RECURSIVE merge(_, _)
\* merge without the insertion of the keys only the incoming node has
merge_drop_new_keys(self, other) ==
  [types |-> merge_types(self, other),
   properties |->
     [key \in DOMAIN self.properties |->
        IF key \in DOMAIN other.properties
        THEN merge(self.properties[key], other.properties[key])
        ELSE self.properties[key]],
   required |-> merge_required(self, other),
   items |->
     IF Len(other.items) = 1
     THEN IF Len(self.items) = 1
          THEN <<merge(self.items[1], other.items[1])>>
          ELSE other.items
     ELSE self.items,
   seen_count |-> merge_seen_count(self, other),
   string_values |-> merge_string_values(self, other),
   numeric_info |-> merge_numeric_info(self, other)]

\* self.merge(&other): the value of self afterwards
merge(self, other) ==
  [types |-> merge_types(self, other),
   properties |->
     [key \in DOMAIN self.properties \cup DOMAIN other.properties |->
        IF key \in DOMAIN other.properties
        THEN IF key \in DOMAIN self.properties
             THEN merge(self.properties[key], other.properties[key])
             ELSE other.properties[key]
        ELSE self.properties[key]],
   required |-> merge_required(self, other),
   items |->
     IF Len(other.items) = 1
     THEN IF Len(self.items) = 1
          THEN <<merge(self.items[1], other.items[1])>>
          ELSE other.items
     ELSE self.items,
   seen_count |-> merge_seen_count(self, other),
   string_values |-> merge_string_values(self, other),
   numeric_info |-> merge_numeric_info(self, other)]

RECURSIVE infer_schema(_)
RECURSIVE fold(_, _)
\* the loop `for v in vs { acc.merge(&infer_schema(v)) }`
fold(acc, vs) ==
  IF vs = <<>> THEN acc
  ELSE fold(merge(acc, infer_schema(Head(vs))), Tail(vs))

\* infer_schema without the insertion of an object's keys into required
infer_schema_no_required(value) ==
  LET node == [SchemaNode_new EXCEPT !.seen_count = 1]
  IN CASE value.kind = "null" -> [node EXCEPT !.types = {"null"}]
       [] value.kind = "bool" -> [node EXCEPT !.types = {"boolean"}]
       [] value.kind = "number" ->
            [node EXCEPT !.types = {"number"},
                         !.numeric_info = [all_integer |-> is_integer(value.n),
                                           count |-> 1]]
       [] value.kind = "string" ->
            [node EXCEPT !.types = {"string"}, !.string_values = {value.s}]
       [] value.kind = "array" ->
            IF Len(value.arr) > 0
            THEN [node EXCEPT !.types = {"array"},
                              !.items = <<fold(SchemaNode_new, value.arr)>>]
            ELSE [node EXCEPT !.types = {"array"}]
       [] value.kind = "object" ->
            [node EXCEPT !.types = {"object"},
                         !.properties = [key \in DOMAIN value.obj |->
                                           infer_schema(value.obj[key])]]

infer_schema(value) ==
  LET node == [SchemaNode_new EXCEPT !.seen_count = 1]
  IN CASE value.kind = "null" -> [node EXCEPT !.types = {"null"}]
       [] value.kind = "bool" -> [node EXCEPT !.types = {"boolean"}]
       [] value.kind = "number" ->
            [node EXCEPT !.types = {"number"},
                         !.numeric_info = [all_integer |-> is_integer(value.n),
                                           count |-> 1]]
       [] value.kind = "string" ->
            [node EXCEPT !.types = {"string"}, !.string_values = {value.s}]
       [] value.kind = "array" ->
            IF Len(value.arr) > 0
            THEN [node EXCEPT !.types = {"array"},
                              !.items = <<fold(SchemaNode_new, value.arr)>>]
            ELSE [node EXCEPT !.types = {"array"}]
       [] value.kind = "object" ->
            [node EXCEPT !.types = {"object"},
                         !.required = DOMAIN value.obj,
                         !.properties = [key \in DOMAIN value.obj |->
                                           infer_schema(value.obj[key])]]

(* ------------------------------- emitter ------------------------------- *)

\* type_str without the test of all_integer
type_str_any_number(self, t) ==
  IF t = "number" /\ self.numeric_info.count > 0 THEN "integer" ELSE t

\* the emitted type string of tag t: the integer narrowing rule
type_str(self, t) ==
  IF t = "number" /\ self.numeric_info.all_integer
                  /\ self.numeric_info.count > 0
  THEN "integer" ELSE t

\* emits_enum with the sample floor compared strictly
emits_enum_strict_floor(self, enum_threshold, min_enum_samples) ==
  /\ Cardinality(self.types) = 1
  /\ "string" \in self.types
  /\ self.string_values # {}
  /\ Cardinality(self.string_values) <= enum_threshold
  /\ self.seen_count > min_enum_samples

\* emits_enum without the test that string is the only type
emits_enum_in_union(self, enum_threshold, min_enum_samples) ==
  /\ "string" \in self.types
  /\ self.string_values # {}
  /\ Cardinality(self.string_values) <= enum_threshold
  /\ self.seen_count >= min_enum_samples

\* the condition under which the enum keyword is inserted
emits_enum(self, enum_threshold, min_enum_samples) ==
  /\ Cardinality(self.types) = 1
  /\ "string" \in self.types
  /\ self.string_values # {}
  /\ Cardinality(self.string_values) <= enum_threshold
  /\ self.seen_count >= min_enum_samples

\* emits_top_properties without the test that there are properties
emits_top_properties_of_empty(self) ==
  ~("object" \in self.types /\ \E t \in self.types : t # "object")

\* emits_top_properties without the suppression for mixed type sets
emits_top_properties_always(self) == DOMAIN self.properties # {}

\* the condition under which properties/required go to the top level
emits_top_properties(self) ==
  LET has_object == "object" \in self.types
      has_non_object == \E t \in self.types : t # "object"
  IN DOMAIN self.properties # {} /\ ~(has_object /\ has_non_object)

RECURSIVE to_json_schema_with_config(_, _, _)
to_json_schema_with_config(self, enum_threshold, min_enum_samples) ==
  LET props == [key \in DOMAIN self.properties |->
                  to_json_schema_with_config(self.properties[key],
                                             enum_threshold, min_enum_samples)]
      required == IF self.required # {}
                  THEN "required" :> iter(self.required) ELSE EmptyMap
      ts == iter(self.types)
      type_schema(t) ==
        ("type" :> type_str(self, t))
        @@ (IF t = "object" /\ DOMAIN self.properties # {}
            THEN ("properties" :> props) @@ required ELSE EmptyMap)
      typePart ==
        IF Cardinality(self.types) = 1
        THEN "type" :> type_str(self, ts[1])
        ELSE IF Cardinality(self.types) > 1
             THEN "anyOf" :> [i \in 1..Len(ts) |-> type_schema(ts[i])]
             ELSE EmptyMap
      propsPart ==
        IF emits_top_properties(self)
        THEN ("properties" :> props) @@ required ELSE EmptyMap
      itemsPart ==
        IF Len(self.items) = 1
        THEN "items" :> to_json_schema_with_config(self.items[1],
                                                   enum_threshold,
                                                   min_enum_samples)
        ELSE EmptyMap
      enumPart ==
        IF emits_enum(self, enum_threshold, min_enum_samples)
        THEN "enum" :> iter(self.string_values) ELSE EmptyMap
  IN typePart @@ propsPart @@ itemsPart @@ enumPart

(* --------------------------- sample universe --------------------------- *)

Strings == {"x", "y", "z"}

Keys == {"id", "name"}

Leaves ==
  {JNull, JBool(TRUE), JNumber("PosInt"), JNumber("Float")}
  \cup {JString(s) : s \in Strings}

\* the arrays of the samples are the prefixes of these element sequences:
\* strings only, and numbers mixed with a string
ArrayPatterns ==
  {<<JString("x"), JString("y"), JString("x"), JString("z")>>,
   <<JNumber("PosInt"), JString("x"), JNumber("Float"), JNumber("PosInt")>>}

\* the array [1, 2, 3] of test_infer_schema_array
TestArrays ==
  {<<JNumber("PosInt"), JNumber("PosInt"), JNumber("PosInt")>>}

Arrays ==
  {JArray(SubSeq(p, 1, n)) : p \in ArrayPatterns, n \in 0..MaxArrayLen}
  \cup {JArray(a) : a \in TestArrays}

\* the value a flat sample object gives each key
FieldValue == [id |-> JNumber("PosInt"), name |-> JString("x")]

\* the flat objects over Keys, and one object whose field is an object
Objects ==
  {JObject([k \in ks |-> FieldValue[k]]) : ks \in SUBSET Keys}
  \cup {JObject([k \in {"name"} |->
                   JObject([j \in {"id"} |-> JNumber("Float")])])}

Values == Leaves \cup Arrays \cup Objects

\* the node test_schema_union_with_object_and_null builds by hand
UnionTestNode ==
  [SchemaNode_new EXCEPT
     !.types = {"object", "null"},
     !.properties = [k \in {"name"} |->
                       [SchemaNode_new EXCEPT !.types = {"string"},
                                              !.seen_count = 1]],
     !.required = {"name"},
     !.seen_count = 2]

\* (enum_threshold, min_enum_samples) of Config
Configs ==
  {[enum_threshold |-> DEFAULT_ENUM_THRESHOLD,
    min_enum_samples |-> DEFAULT_MIN_ENUM_SAMPLES],
   [enum_threshold |-> DEFAULT_ENUM_THRESHOLD, min_enum_samples |-> 4],
   [enum_threshold |-> 2, min_enum_samples |-> 1]}

(* --------------------------- SampleCollection -------------------------- *)

\* HashMap::entry(k).or_default() read: the value at k, or the default
Get(map, k, default) == IF k \in DOMAIN map THEN map[k] ELSE default

\* the map with v stored at k
Put(map, k, v) == [x \in DOMAIN map \cup {k} |-> IF x = k THEN v ELSE map[x]]

\* push without the test of the cap
push_uncapped(list, value, max_samples) == Append(list, value)

\* push that replaces the newest stored value once the cap is reached
push_keep_latest(list, value, max_samples) ==
  IF Len(list) < max_samples THEN Append(list, value)
  ELSE IF list = <<>> THEN list
       ELSE Append(SubSeq(list, 1, Len(list) - 1), value)

\* Vec::push under the `len() < max_samples` test
push_capped(list, value, max_samples) ==
  IF Len(list) < max_samples THEN Append(list, value) ELSE list

SampleCollection_new ==
  [samples |-> EmptyMap, unparsed |-> EmptyMap, counts |-> EmptyMap,
   source_files |-> <<>>, content_blocks |-> EmptyMap,
   tool_inputs |-> EmptyMap]

\* the nested map with value pushed, under the cap, onto the list at
\* (agent, key)
push_nested(map, agent, key, value, max_samples) ==
  LET inner == Get(map, agent, EmptyMap)
  IN Put(map, agent,
         Put(inner, key, push_capped(Get(inner, key, <<>>), value,
                                     max_samples)))

add_sample(self, agent, event_type, value, max_samples) ==
  LET agent_counts == Get(self.counts, agent, EmptyMap)
  IN [self EXCEPT
        !.samples = push_nested(self.samples, agent, event_type, value,
                                max_samples),
        !.counts = Put(self.counts, agent,
                       Put(agent_counts, event_type,
                           Get(agent_counts, event_type, 0) + 1))]

add_content_block(self, agent, block_type, value, max_samples) ==
  [self EXCEPT !.content_blocks =
     push_nested(self.content_blocks, agent, block_type, value, max_samples)]

add_tool_input(self, agent, tool_name, value, max_samples) ==
  [self EXCEPT !.tool_inputs =
     push_nested(self.tool_inputs, agent, tool_name, value, max_samples)]

add_unparsed(self, agent, line) ==
  [self EXCEPT !.unparsed =
     Put(self.unparsed, agent, Append(Get(self.unparsed, agent, <<>>), line))]

add_source_file(self, path) ==
  [self EXCEPT !.source_files = Append(self.source_files, path)]

\* Config::default(); agents_filter is an Option: <<>> is None
Config_default ==
  [agents_filter |-> <<>>, overwrite |-> FALSE, emit_schema |-> TRUE,
   emit_raw |-> TRUE, max_samples |-> 100, emit_unparsed |-> FALSE,
   emit_nested_schema |-> TRUE,
   enum_threshold |-> DEFAULT_ENUM_THRESHOLD,
   min_enum_samples |-> DEFAULT_MIN_ENUM_SAMPLES, emit_coverage |-> TRUE]

(* --------------------------- write_schema_file ------------------------- *)

\* doc is <<>> until the document is built, then <<fragment>>; config is
\* read only when the document is built, so its value is drawn there
EngineInit ==
  /\ values = <<>>
  /\ schema = SchemaNode_new
  /\ doc = <<>>
  /\ config = [enum_threshold |-> DEFAULT_ENUM_THRESHOLD,
               min_enum_samples |-> DEFAULT_MIN_ENUM_SAMPLES]
  /\ pc = "fold"

\* no run of the binary under way: nothing read, nothing written
ExtractIdle ==
  /\ lines = <<>>
  /\ pos = 1
  /\ collection = SampleCollection_new
  /\ args = Config_default
  /\ files = EmptyMap
  /\ first = EmptyMap
  /\ phase = "idle"

\* no session spawned
SessionIdle ==
  /\ session = [config |-> [channel_buffer_size |-> 0], process |-> <<>>,
                receiver |-> <<>>, session_id |-> <<>>]
  /\ channels = EmptyMap
  /\ iterator = <<>>
  /\ caller = [pc |-> "idle", op |-> "none", result |-> "none",
               pending |-> <<>>, events_taken |-> FALSE,
               id_yielded |-> FALSE]
  /\ spawned = 0

Init == EngineInit /\ ExtractIdle /\ SessionIdle

\* one iteration of `for value in values`
MergeSample ==
  /\ pc = "fold"
  /\ Len(values) < MaxSamples
  /\ \E value \in Values :
       /\ values' = Append(values, value)
       /\ schema' = merge(schema, infer_schema(value))
  /\ UNCHANGED <<doc, config, pc, extractVars, sessionVars>>

\* EmitSchema handing on the wrapper keys of the document together with
\* the fragment
EmitSchema_with_wrapper ==
  /\ pc = "fold"
  /\ \E c \in Configs :
       /\ config' = c
       /\ doc' = <<[k \in {"$schema", "title", "description"} |-> k]
                   @@ to_json_schema_with_config(schema, c.enum_threshold,
                                                 c.min_enum_samples)>>
  /\ pc' = "written"
  /\ UNCHANGED <<values, schema, extractVars, sessionVars>>

\* the loop is over: build the document from the aggregate
EmitSchema ==
  /\ pc = "fold"
  /\ \E c \in Configs :
       /\ config' = c
       /\ doc' = <<to_json_schema_with_config(schema, c.enum_threshold,
                                              c.min_enum_samples)>>
  /\ pc' = "written"
  /\ UNCHANGED <<values, schema, extractVars, sessionVars>>

Next == MergeSample \/ EmitSchema

Spec == Init /\ [][Next]_vars

\* the loop `for value in values` alone, before any document is built
FoldSpec == Init /\ [][MergeSample]_vars

TypeOK ==
  /\ Len(values) <= MaxSamples
  /\ pc \in {"fold", "written"}
  /\ (pc = "written") <=> (Len(doc) = 1)
  /\ schema.seen_count = Len(values)

(* ------------------------- auxiliary definitions ----------------------- *)

\* the reorderings of the sample slice vs
Permutations_of(vs) ==
  LET n == Len(vs)
      bij == {p \in [1..n -> 1..n] : \A i, j \in 1..n : p[i] = p[j] => i = j}
  IN {[i \in 1..n |-> vs[p[i]]] : p \in bij}

\* indices of the samples of vs of one kind
OfKind(vs, kind) == {i \in 1..Len(vs) : vs[i].kind = kind}

RECURSIVE Nodes(_)
\* every node of the tree rooted at n
Nodes(n) ==
  {n} \cup UNION {Nodes(n.properties[k]) : k \in DOMAIN n.properties}
      \cup (IF Len(n.items) = 1 THEN Nodes(n.items[1]) ELSE {})

RECURSIVE Flatten(_)
\* the elements of all array samples of vs, in order
Flatten(vs) ==
  IF vs = <<>> THEN <<>>
  ELSE (IF Head(vs).kind = "array" THEN Head(vs).arr ELSE <<>>)
       \o Flatten(Tail(vs))

RECURSIVE AtKey(_, _)
\* the values the object samples of vs give key k, in order
AtKey(vs, k) ==
  IF vs = <<>> THEN <<>>
  ELSE (IF Head(vs).kind = "object" /\ k \in DOMAIN Head(vs).obj
        THEN <<Head(vs).obj[k]>> ELSE <<>>)
       \o AtKey(Tail(vs), k)

RECURSIVE SumSeq(_)
SumSeq(s) == IF s = <<>> THEN 0 ELSE Head(s) + SumSeq(Tail(s))

Range(s) == {s[i] : i \in 1..Len(s)}

Written == pc = "written"

(* -------------------------------- claims ------------------------------- *)

\* C1: the emitted document does not depend on the order of the samples:
\* folding any permutation of the slice from an empty node and emitting
\* with the same configuration gives the document that was written.
C1_OrderIndependentDocument ==
  Written =>
    \A p \in Permutations_of(values) :
      to_json_schema_with_config(fold(SchemaNode_new, p),
                                 config.enum_threshold,
                                 config.min_enum_samples) = doc[1]

\* C2: the aggregate node does not depend on the order of the samples:
\* types, properties, required and items of the fold of any permutation
\* equal those of the fold in the original order, and string_values and
\* numeric_info.count are the union and the sum of the per-sample values.
C2_OrderIndependentNode ==
  \A p \in Permutations_of(values) :
    LET n == fold(SchemaNode_new, p)
    IN /\ n.types = schema.types
       /\ n.properties = schema.properties
       /\ n.required = schema.required
       /\ n.items = schema.items
       /\ n.string_values =
            UNION {infer_schema(values[i]).string_values :
                     i \in 1..Len(values)}
       /\ n.numeric_info.count =
            SumSeq([i \in 1..Len(values) |->
                      infer_schema(values[i]).numeric_info.count])

\* C3: required is the intersection of the key sets of the object samples
\* merged into the node; samples that are not objects leave it alone.
C3_RequiredIsObjectKeyIntersection ==
  LET objs == OfKind(values, "object")
  IN schema.required =
       IF objs = {} THEN {}
       ELSE {k \in Keys : \A i \in objs : k \in DOMAIN values[i].obj}

\* C4: folding {"name": "x"} and null, in either order, emits anyOf with
\* exactly two branches, the object branch carrying properties.name and
\* required = ["name"], and no top-level properties key.
C4_UnionPropertySuppression ==
  LET o == JObject([k \in {"name"} |-> JString("x")])
  IN (Written /\ values \in {<<o, JNull>>, <<JNull, o>>}) =>
       LET d == doc[1]
       IN /\ "anyOf" \in DOMAIN d
          /\ Len(d["anyOf"]) = 2
          /\ "properties" \notin DOMAIN d
          /\ \E i \in 1..2 :
               LET b == d["anyOf"][i]
               IN /\ b["type"] = "object"
                  /\ "properties" \in DOMAIN b
                  /\ "name" \in DOMAIN b["properties"]
                  /\ "required" \in DOMAIN b
                  /\ b["required"] = <<"name">>

\* C5: over a slice of object samples, required after merging sample k+1
\* is a subset of required after merging sample k, for every k >= 1.
C5_RequiredMonotone ==
  [][(/\ Len(values) >= 1
      /\ Len(values') = Len(values) + 1
      /\ OfKind(values', "object") = 1..Len(values'))
     => schema'.required \subseteq schema.required]_vars

\* C5 witness: three object samples merged, required strictly smaller
\* than the key set of the first
C5_Witness ==
  /\ Len(values) = 3
  /\ OfKind(values, "object") = 1..3
  /\ schema.required # DOMAIN values[1].obj
  /\ schema.required \subseteq DOMAIN values[1].obj

\* C6: a position whose samples are all numbers is emitted as "integer"
\* when every sample was an integer and as "number" when at least one was
\* a float, wherever the float stands in the slice.
C6_IntegerNarrowing ==
  (Written /\ Len(values) >= 1 /\ OfKind(values, "number") = 1..Len(values))
    => /\ DOMAIN doc[1] = {"type"}
       /\ doc[1]["type"] =
            IF \A i \in 1..Len(values) : is_integer(values[i].n)
            THEN "integer" ELSE "number"

\* C6 witness: a single float after two integers, emitted as "number"
C6_Witness ==
  /\ Written
  /\ values = <<JNumber("PosInt"), JNumber("PosInt"), JNumber("Float")>>
  /\ doc[1]["type"] = "number"

\* C7: N string samples with D distinct values folded from an empty node
\* are emitted with enum exactly when 1 <= D <= enum_threshold and
\* N >= min_enum_samples, and enum then lists exactly the D values.
C7_EnumGating ==
  (Written /\ Len(values) >= 1 /\ OfKind(values, "string") = 1..Len(values))
    => LET D == {values[i].s : i \in 1..Len(values)}
           N == Len(values)
       IN /\ ("enum" \in DOMAIN doc[1]) <=>
               (/\ 1 <= Cardinality(D)
                /\ Cardinality(D) <= config.enum_threshold
                /\ N >= config.min_enum_samples)
          /\ "enum" \in DOMAIN doc[1] =>
               /\ Range(doc[1]["enum"]) = D
               /\ Len(doc[1]["enum"]) = Cardinality(D)

\* C7 witness: 3 distinct values over 3 samples with (10, 3) give an enum
\* of the 3 values
C7_Witness ==
  /\ Written
  /\ values = <<JString("y"), JString("x"), JString("z")>>
  /\ config = [enum_threshold |-> 10, min_enum_samples |-> 3]
  /\ doc[1]["enum"] = <<"x", "y", "z">>

\* the enum rule of the emitter, of one node and its fragment frag under
\* configuration c
EnumRule(node, frag, c) ==
  /\ ("enum" \in DOMAIN frag) <=>
       (/\ Cardinality(node.types) = 1
        /\ node.types = {"string"}
        /\ 1 <= Cardinality(node.string_values)
        /\ Cardinality(node.string_values) <= c.enum_threshold
        /\ node.seen_count >= c.min_enum_samples)
  /\ "enum" \in DOMAIN frag =>
       /\ Range(frag["enum"]) = node.string_values
       /\ Len(frag["enum"]) = Cardinality(node.string_values)
  /\ Cardinality(node.types) > 1 =>
       /\ "enum" \notin DOMAIN frag
       /\ \A i \in 1..Len(frag["anyOf"]) :
            "enum" \notin DOMAIN frag["anyOf"][i]

\* C8: for every node and configuration the emitted fragment has the enum
\* key iff |types| = 1, the type is string, 1 <= |string_values| <=
\* enum_threshold and seen_count >= min_enum_samples; enum then lists
\* exactly string_values; a string tag in a union never gets an enum.
C8_EmitterEnumRule ==
  Written =>
    /\ EnumRule(schema, doc[1], config)
    /\ \A node \in Nodes(schema) :
         EnumRule(node,
                  to_json_schema_with_config(node, config.enum_threshold,
                                             config.min_enum_samples),
                  config)

\* C8 witness: an enum emitted with |string_values| at the threshold
C8_Witness ==
  /\ Written
  /\ schema.types = {"string"}
  /\ Cardinality(schema.string_values) = config.enum_threshold
  /\ "enum" \in DOMAIN doc[1]

\* C9: items is present exactly when a non-empty array sample was seen at
\* the position and then equals, in every field, the flat fold of
\* infer_schema over every element of every array sample.
C9_ItemsIsFlatFold ==
  LET elems == Flatten(values)
  IN /\ (Len(schema.items) = 1) <=> (elems # <<>>)
     /\ Len(schema.items) = 1 =>
          schema.items[1] = fold(SchemaNode_new, elems)

RECURSIVE CountsSamples(_, _)
\* seen_count of n and of every node below it is the number of values of
\* vs (the samples that reach the position of n) at that position
CountsSamples(n, vs) ==
  /\ n.seen_count = Len(vs)
  /\ \A k \in DOMAIN n.properties :
       CountsSamples(n.properties[k], AtKey(vs, k))
  /\ Len(n.items) = 1 => CountsSamples(n.items[1], Flatten(vs))

\* C10: at every node of the aggregate tree seen_count is the number of
\* sample values that contributed to that tree position.
C10_SeenCountCountsSamples == CountsSamples(schema, values)

\* C11: merge is associative on nodes produced by infer_schema: merging b
\* and then c into a gives the node that merging (c merged into b) into a
\* gives.
C11_MergeAssociative ==
  Len(values) = 3 =>
    LET a == infer_schema(values[1])
        b == infer_schema(values[2])
        c == infer_schema(values[3])
    IN merge(merge(a, b), c) = merge(a, merge(b, c))

\* the effect of merging n with a copy of itself that C12 states of the
\* whole child nodes
SelfMergeKeepsChildren(n) ==
  LET m == merge(n, n)
  IN /\ m.types = n.types
     /\ m.properties = n.properties
     /\ m.items = n.items
     /\ m.required = n.required
     /\ m.seen_count = n.seen_count + 1

RECURSIVE SelfMergeKeepsShape(_)
\* the same with the children compared by key set and presence, each child
\* being merged with itself in turn
SelfMergeKeepsShape(n) ==
  LET m == merge(n, n)
  IN /\ m.types = n.types
     /\ DOMAIN m.properties = DOMAIN n.properties
     /\ Len(m.items) = Len(n.items)
     /\ m.required = n.required
     /\ m.seen_count = n.seen_count + 1
     /\ \A k \in DOMAIN n.properties :
          /\ m.properties[k].seen_count = n.properties[k].seen_count + 1
          /\ SelfMergeKeepsShape(n.properties[k])
     /\ Len(n.items) = 1 =>
          /\ m.items[1].seen_count = n.items[1].seen_count + 1
          /\ SelfMergeKeepsShape(n.items[1])

\* C12 as stated: merging a node with a copy of itself leaves types,
\* properties, items and required unchanged and adds 1 to seen_count.
C12_SelfMergeUnchanged ==
  \A n \in Nodes(schema) : SelfMergeKeepsChildren(n)

\* C12 amended: merging a node with a copy of itself leaves types,
\* required, the key set of properties and the presence of items
\* unchanged and adds 1 to seen_count; every property child and the items
\* child is merged with itself in turn, so its seen_count grows by 1 too.
C12_SelfMergeShape ==
  SelfMergeKeepsShape(schema)

\* C12 witness: an aggregate of several samples with property children
\* and required names whose self-merge changes a child
C12_Witness ==
  /\ Len(values) = 3
  /\ schema.required # {}
  /\ schema.types = {"object"}
  /\ merge(schema, schema).properties # schema.properties
  /\ merge(schema, schema).seen_count = 4

\* the sample merged last, if any: every sample of a run is the last one
\* of the state its MergeSample step leads to
NewSample == IF values = <<>> THEN {} ELSE {values[Len(values)]}

\* the type tag of a JSON value, by its kind
TypeTag(value) == IF value.kind = "bool" THEN "boolean" ELSE value.kind

\* the arrays [1, 2, 3] and [1, "a"] of the array homogenization property
Array123 ==
  JArray(<<JNumber("PosInt"), JNumber("PosInt"), JNumber("PosInt")>>)

Array1a == JArray(<<JNumber("PosInt"), JString("x")>>)

\* the sub-schemas of an anyOf array, by their type strings
BranchTypes(frag) == [i \in 1..Len(frag["anyOf"]) |-> frag["anyOf"][i]["type"]]

\* C13 of one array sample v and the fragment frag emitted for its node n
Homogenized(v, n, frag) ==
  /\ Len(n.items) = 1
  /\ n.items[1].types = {TypeTag(v.arr[i]) : i \in 1..Len(v.arr)}
  /\ "items" \in DOMAIN frag
  /\ v = Array123 => frag["items"] = [type |-> "integer"]
  /\ v = Array1a =>
       /\ DOMAIN frag["items"] = {"anyOf"}
       /\ BranchTypes(frag["items"]) = <<"integer", "string">>
       /\ \A i \in 1..2 : DOMAIN frag["items"]["anyOf"][i] = {"type"}

\* C13: a single non-empty array sample yields one items node whose type
\* set is the union of the element types; [1, 2, 3] is emitted with
\* items.type = "integer" and [1, "a"] with items.anyOf of exactly the
\* branches integer and string.
C13_ArrayHomogenization ==
  /\ \A v \in NewSample :
       (v.kind = "array" /\ Len(v.arr) > 0) =>
         Homogenized(v, infer_schema(v),
                     to_json_schema_with_config(infer_schema(v),
                                                config.enum_threshold,
                                                config.min_enum_samples))
  /\ (Written /\ Len(values) = 1 /\ values[1].kind = "array"
              /\ Len(values[1].arr) > 0) =>
       Homogenized(values[1], schema, doc[1])

\* C13 witness: the document written for the single sample [1, "a"]
C13_Witness ==
  /\ Written
  /\ values = <<Array1a>>
  /\ "anyOf" \in DOMAIN doc[1]["items"]

\* a non-integral number is among the samples vs
FloatSeen(vs) ==
  \E i \in 1..Len(vs) : vs[i].kind = "number" /\ ~is_integer(vs[i].n)

RECURSIVE StaysNonInteger(_, _)
\* wherever a node of the tree n has recorded a non-integral number, the
\* node at the same position of the tree m has all_integer false
StaysNonInteger(n, m) ==
  /\ (n.numeric_info.count > 0 /\ ~n.numeric_info.all_integer)
       => ~m.numeric_info.all_integer
  /\ \A k \in DOMAIN n.properties \cap DOMAIN m.properties :
       StaysNonInteger(n.properties[k], m.properties[k])
  /\ (Len(n.items) = 1 /\ Len(m.items) = 1) =>
       StaysNonInteger(n.items[1], m.items[1])

\* C14: once a non-integral number has been merged into a node,
\* all_integer is false after every later merge at that node, whatever is
\* merged afterwards.
C14_AllIntegerStickyFalse ==
  [][/\ FloatSeen(values') => ~schema'.numeric_info.all_integer
     /\ StaysNonInteger(schema, schema')]_vars

\* C14 witness: a float, then an integer and a non-number merged after it
C14_Witness ==
  /\ values = <<JNumber("Float"), JNumber("PosInt"), JNull>>
  /\ schema.numeric_info = [all_integer |-> FALSE, count |-> 2]

\* C15: in every node of every tree built by infer_schema and merge, at
\* every depth, required is a subset of the key set of properties.
C15_RequiredWithinProperties ==
  /\ \A n \in Nodes(schema) : n.required \subseteq DOMAIN n.properties
  /\ \A v \in NewSample :
       \A n \in Nodes(infer_schema(v)) :
         n.required \subseteq DOMAIN n.properties

\* C15 witness: three samples merged, required a proper subset of the
\* keys at the top and a required name in a node below it
C15_Witness ==
  /\ Len(values) = 3
  /\ schema.required # DOMAIN schema.properties
  /\ \E n \in Nodes(schema) \ {schema} : n.required # {}

\* the fragment the emitter writes for node n under configuration c
Fragment(n, c) ==
  to_json_schema_with_config(n, c.enum_threshold, c.min_enum_samples)

\* the type set of n mixes object with another type
Mixed(n) == "object" \in n.types /\ n.types # {"object"}

\* C16 of one node n and its fragment frag
SuppressionRule(n, frag) ==
  /\ ("properties" \in DOMAIN frag) <=>
       (DOMAIN n.properties # {} /\ ~Mixed(n))
  /\ "required" \in DOMAIN frag => "properties" \in DOMAIN frag
  /\ Mixed(n) =>
       /\ "anyOf" \in DOMAIN frag
       /\ \A i \in 1..Len(frag["anyOf"]) :
            LET b == frag["anyOf"][i]
            IN /\ ({"properties", "required"} \cap DOMAIN b # {})
                    => b["type"] = "object"
               /\ (b["type"] = "object" /\ DOMAIN n.properties # {})
                    => "properties" \in DOMAIN b

\* C16: the fragment of a node has a top-level properties key iff
\* properties is non-empty and the type set does not mix object with
\* another type; when it does, properties/required appear only inside the
\* object branch of anyOf.  Checked of every EmitSchema step: of the
\* document it writes, of the fragment of every node below the root, and
\* of the hand-built union node under the step's configuration.
C16_TopLevelSuppression ==
  [][pc' = "written" =>
       /\ SuppressionRule(schema', doc'[1])
       /\ \A n \in (Nodes(schema') \ {schema'}) \cup {UnionTestNode} :
            SuppressionRule(n, Fragment(n, config'))
       /\ Fragment(UnionTestNode, config')["anyOf"][2]
            = [type |-> "object",
               properties |-> [name |-> [type |-> "string"]],
               required |-> <<"name">>]]_vars

\* C16 witness: a written document of object and non-object samples whose
\* properties are in the object branch only
C16_Witness ==
  /\ Written
  /\ Mixed(schema)
  /\ DOMAIN schema.properties = {"id", "name"}
  /\ "properties" \notin DOMAIN doc[1]
  /\ \E i \in 1..Len(doc[1]["anyOf"]) :
       "properties" \in DOMAIN doc[1]["anyOf"][i]

\* the keywords of the emitted subset of JSON Schema
SchemaKeys == {"type", "anyOf", "properties", "required", "items", "enum"}

RECURSIVE KeysWithin(_)
\* the fragment f, every anyOf branch, every properties value and every
\* items value of it, recursively, has keys of SchemaKeys only
KeysWithin(f) ==
  /\ DOMAIN f \subseteq SchemaKeys
  /\ "anyOf" \in DOMAIN f =>
       \A i \in 1..Len(f["anyOf"]) : KeysWithin(f["anyOf"][i])
  /\ "properties" \in DOMAIN f =>
       \A k \in DOMAIN f["properties"] : KeysWithin(f["properties"][k])
  /\ "items" \in DOMAIN f => KeysWithin(f["items"])

\* C17: every object of the emitted fragment, recursively, has keys drawn
\* only from {type, anyOf, properties, required, items, enum}.
C17_OnlySchemaKeys ==
  Written =>
    /\ KeysWithin(doc[1])
    /\ KeysWithin(to_json_schema_with_config(UnionTestNode,
                                             config.enum_threshold,
                                             config.min_enum_samples))

\* C17 witness: a written document with anyOf, items and an object
\* branch that carries properties
C17_Witness ==
  /\ Written
  /\ {"anyOf", "items"} \subseteq DOMAIN doc[1]
  /\ \E i \in 1..Len(doc[1]["anyOf"]) :
       "properties" \in DOMAIN doc[1]["anyOf"][i]

\* the number tag of n is to be written as "integer"
Narrowed(n) == n.numeric_info.all_integer /\ n.numeric_info.count > 0

\* the type tag an emitted type string stands for
TagOf(type) == IF type = "integer" THEN "number" ELSE type

\* C18 of one node n and its fragment frag
TypeRule(n, frag) ==
  /\ Cardinality(n.types) = 1 =>
       /\ "type" \in DOMAIN frag
       /\ "anyOf" \notin DOMAIN frag
       /\ {TagOf(frag["type"])} = n.types
       /\ (frag["type"] = "integer") <=> (n.types = {"number"} /\ Narrowed(n))
  /\ Cardinality(n.types) > 1 =>
       /\ "type" \notin DOMAIN frag
       /\ "anyOf" \in DOMAIN frag
       /\ LET bs == BranchTypes(frag)
          IN /\ Len(bs) = Cardinality(n.types)
             /\ {TagOf(bs[i]) : i \in 1..Len(bs)} = n.types
             /\ \A i, j \in 1..Len(bs) :
                  i < j => Rank(TagOf(bs[i])) < Rank(TagOf(bs[j]))
             /\ \A i \in 1..Len(bs) :
                  (bs[i] = "integer") <=>
                    (TagOf(bs[i]) = "number" /\ Narrowed(n))

\* C18: with one type tag the fragment has type and no anyOf; with several
\* it has no top-level type and an anyOf with one branch per tag in
\* ascending tag order; the number tag is written "integer" exactly when
\* all_integer holds and count > 0.  Checked of every EmitSchema step: of
\* the document it writes, of the fragment of every node below the root,
\* and of the hand-built union node under the step's configuration.
C18_EmitterTypeRule ==
  [][pc' = "written" =>
       /\ TypeRule(schema', doc'[1])
       /\ \A n \in (Nodes(schema') \ {schema'}) \cup {UnionTestNode} :
            TypeRule(n, Fragment(n, config'))]_vars

\* C18 witness: null and integers written as the branches null, integer,
\* in the order of the tags null and number
C18_Witness ==
  /\ Written
  /\ schema.types = {"null", "number"}
  /\ BranchTypes(doc[1]) = <<"null", "integer">>

RECURSIVE SubValues(_)
\* the JSON value v, the elements of its arrays and the values of its
\* objects, recursively
SubValues(v) ==
  {v}
  \cup (IF v.kind = "array"
        THEN UNION {SubValues(v.arr[i]) : i \in 1..Len(v.arr)} ELSE {})
  \cup (IF v.kind = "object"
        THEN UNION {SubValues(v.obj[k]) : k \in DOMAIN v.obj} ELSE {})

\* C19 of one JSON value v
LeafContract(v) ==
  LET n == infer_schema(v)
  IN /\ n.seen_count = 1
     /\ n.types = {TypeTag(v)}
     /\ v.kind = "object" =>
          /\ n.required = DOMAIN v.obj
          /\ DOMAIN n.properties = DOMAIN v.obj
          /\ \A k \in DOMAIN v.obj : n.properties[k] = infer_schema(v.obj[k])
     /\ v.kind # "object" => (n.required = {} /\ DOMAIN n.properties = {})
     /\ (v.kind = "array" /\ Len(v.arr) = 0) => n.items = <<>>
     /\ v.kind # "array" => n.items = <<>>

\* C19: infer_schema returns for every JSON value a node with
\* seen_count = 1 and exactly one type tag, chosen by the value's kind;
\* for an object required is the key set and the key set of properties,
\* each child the inference of the key's value; for an empty array items
\* is absent.
C19_LeafContract ==
  \A s \in NewSample : \A v \in SubValues(s) : LeafContract(v)

\* C19 witness: samples of every kind inferred, an empty array and an
\* object with two keys among them
C19_Witness ==
  /\ Len(values) = 3
  /\ JArray(<<>>) \in Range(values)
  /\ \E i \in 1..3 : values[i].kind = "object"
                     /\ DOMAIN values[i].obj = {"id", "name"}
  /\ \E i \in 1..3 : values[i].kind = "bool"
  /\ schema.types = {"array", "boolean", "object"}

\* C20: every node with seen_count >= 1, at every depth of a tree built by
\* infer_schema and merge, has a non-empty types set.
C20_TypesNonEmpty ==
  /\ \A n \in Nodes(schema) : n.seen_count >= 1 => n.types # {}
  /\ \A v \in NewSample :
       \A n \in Nodes(infer_schema(v)) :
         n.seen_count >= 1 => n.types # {}

\* C20 witness: an aggregate of three samples with a property child and
\* an items child, every node of it having absorbed a sample
C20_Witness ==
  /\ Len(values) = 3
  /\ DOMAIN schema.properties # {}
  /\ Len(schema.items) = 1
  /\ \A n \in Nodes(schema) : n.seen_count >= 1 /\ n.types # {}

\* the seven fields of SchemaNode
NodeFields ==
  {"types", "properties", "required", "items", "seen_count",
   "string_values", "numeric_info"}

\* the type tags infer_schema inserts
TypeTags == {"null", "boolean", "number", "string", "array", "object"}

RECURSIVE IsNode(_)
\* n is a value of SchemaNode: every field present and of its type, the
\* children nodes in turn
IsNode(n) ==
  /\ DOMAIN n = NodeFields
  /\ n.types \subseteq TypeTags
  /\ n.seen_count \in Nat
  /\ n.numeric_info.count \in Nat
  /\ n.numeric_info.all_integer \in BOOLEAN
  /\ Len(n.items) \in {0, 1}
  /\ \A k \in DOMAIN n.properties : IsNode(n.properties[k])
  /\ Len(n.items) = 1 => IsNode(n.items[1])

\* nodes without types, properties and items, whatever their other fields
EmptyShaped ==
  {[SchemaNode_new EXCEPT !.seen_count = sc, !.string_values = sv,
                          !.required = rq, !.numeric_info = ni] :
     sc \in {0, 5}, sv \in {{}, {"x"}}, rq \in {{}, {"id"}},
     ni \in {NumericInfo_default, [all_integer |-> TRUE, count |-> 1]}}

\* the nodes the aggregate is merged with, on either side, besides the
\* nodes of the samples
MergePartners == {SchemaNode_new, UnionTestNode}

\* C21: the engine has no failure outcome: the merge of every pair of
\* nodes is a node, the emission of every node under every configuration
\* is a schema object, and the empty node (no types, no properties, no
\* items) is emitted as the empty schema object.
C21_EngineTotal ==
  /\ pc \in {"fold", "written"}
  /\ IsNode(schema)
  /\ \A n \in MergePartners :
       IsNode(merge(schema, n)) /\ IsNode(merge(n, schema))
  /\ Written => KeysWithin(doc[1])
  /\ values = <<>> =>
       /\ Written => doc[1] = EmptyMap
       /\ \A n \in EmptyShaped, c \in Configs : Fragment(n, c) = EmptyMap

\* C21 witness: the document written for no sample at all is the empty
\* object
C21_Witness ==
  /\ Written
  /\ values = <<>>
  /\ schema = SchemaNode_new
  /\ doc = <<EmptyMap>>

\* the top-level key set of a sample, a non-object sample having none
KeySet(v) == IF v.kind = "object" THEN DOMAIN v.obj ELSE {}

\* the keys every sample of the non-empty sequence vs has at the top
CommonKeys(vs) == {k \in KeySet(vs[1]) : \A i \in 1..Len(vs) : k \in KeySet(vs[i])}

\* C27: the first merge into a node with seen_count = 0 copies the
\* incoming required and every later merge intersects, so the fold of a
\* non-empty sample sequence from the empty node has required equal to the
\* intersection of the top-level key sets of all samples, a non-object
\* sample counting as an empty key set.
C27_RequiredSeeding ==
  /\ \A v \in NewSample :
       /\ merge(SchemaNode_new, infer_schema(v)).required = KeySet(v)
       /\ merge(schema, infer_schema(v)).required
            = schema.required \cap KeySet(v)
  /\ values # <<>> => schema.required = CommonKeys(values)

\* C27 witness: three object samples with different key sets, one key
\* common to all of them
C27_Witness ==
  /\ Len(values) = 3
  /\ \A i \in 1..3 : values[i].kind = "object"
  /\ KeySet(values[1]) = {"id", "name"}
  /\ KeySet(values[2]) # KeySet(values[3])
  /\ schema.required = {"id"}

\* C28: the empty node is a left identity of merge on one-sample nodes:
\* for every JSON value v, merge of infer_schema(v) into SchemaNode::new()
\* equals infer_schema(v) in every field, so the fold seeded with the
\* empty node and the fold seeded with the first sample's node agree.
C28_EmptyNodeLeftIdentity ==
  /\ \A s \in NewSample : \A v \in SubValues(s) :
       merge(SchemaNode_new, infer_schema(v)) = infer_schema(v)
  /\ Len(values) = 1 => schema = infer_schema(values[1])
  /\ values # <<>> =>
       schema = fold(infer_schema(Head(values)), Tail(values))

\* C28 witness: an integer, an object and an array folded from the empty
\* node, number and properties and items all present in the aggregate
C28_Witness ==
  /\ Len(values) = 3
  /\ values[1] = JNumber("PosInt")
  /\ schema.numeric_info = [all_integer |-> TRUE, count |-> 1]
  /\ schema.required = {}
  /\ DOMAIN schema.properties = {"id", "name"}
  /\ Len(schema.items) = 1

\* C29 of one node n
TagsConsistent(n) ==
  /\ ("number" \in n.types) <=> (n.numeric_info.count > 0)
  /\ ("string" \in n.types) <=> (n.string_values # {})
  /\ DOMAIN n.properties # {} => "object" \in n.types
  /\ Len(n.items) = 1 => "array" \in n.types

\* C29: in every node reachable by infer_schema and any sequence of
\* merges, number is in types exactly when numeric_info.count > 0, string
\* exactly when string_values is non-empty, properties is non-empty only
\* if object is in types and items is present only if array is.
C29_TypeTagConsistency ==
  /\ \A n \in Nodes(schema) : TagsConsistent(n)
  /\ \A v \in NewSample : \A n \in Nodes(infer_schema(v)) : TagsConsistent(n)

\* C29 witness: an aggregate of a number, a string and an array of both,
\* the items node carrying the two tags as well
C29_Witness ==
  /\ Len(values) = 3
  /\ {"number", "string", "array"} \subseteq schema.types
  /\ Len(schema.items) = 1
  /\ schema.items[1].types = {"number", "string"}
  /\ schema.items[1].numeric_info.count > 0
  /\ schema.items[1].string_values # {}

(* ------------------- schema_extraction: collection --------------------- *)

\* longest log, in lines
MaxLines == 3

\* largest --max-samples among the runs
MaxCap == 2

\* A log line is modelled by what parse_new_format, serde_json::from_str
\* and the field reads of the collector make of it: whether it parses as a
\* log line, its agent and kind, whether its payload is JSON, and of a JSON
\* payload the discriminator (an Option), the message.content array, the
\* top-level name and input (Options) and the value `body` schemas are
\* inferred from.
Block(type, name, input) ==
  [type |-> type, name |-> name, input |-> input, body |-> JString("x")]

Json(event, blocks, name, input, body) ==
  [json |-> TRUE, event |-> event, blocks |-> blocks, name |-> name,
   input |-> input, body |-> body]

NotJson == [json |-> FALSE]

LogLine(agent, kind, payload) ==
  [parsed |-> TRUE, agent |-> agent, kind |-> kind, payload |-> payload]

LogLines ==
  {LogLine("claude", "stdout",
           Json(<<"assistant">>,
                <<Block("tool_use", <<"Bash">>, <<JNumber("PosInt")>>)>>,
                <<>>, <<>>, JString("x"))),
   LogLine("claude", "stdout",
           Json(<<"assistant">>, <<Block("text", <<>>, <<>>)>>,
                <<>>, <<>>, JNumber("PosInt"))),
   LogLine("gemini", "stdout",
           Json(<<"tool_call">>, <<>>, <<"Bash">>, <<JString("y")>>,
                JString("y"))),
   LogLine("gemini", "stdout", NotJson)}

RECURSIVE Logs(_)
\* the logs of at most n lines
Logs(n) ==
  IF n = 0 THEN {<<>>}
  ELSE LET shorter == Logs(n - 1)
       IN shorter \cup {Append(log, line) : log \in shorter, line \in LogLines}

\* the Configs of the runs: --emit-unparsed, with and without --agents
\* claude, --max-samples from 1 to MaxCap
RunConfigs ==
  {[Config_default EXCEPT !.emit_unparsed = TRUE, !.agents_filter = f,
                          !.max_samples = m, !.overwrite = o] :
     f \in {<<>>, <<{"claude"}>>}, m \in 1..MaxCap, o \in BOOLEAN}

get_event_discriminator(agent, json) ==
  IF json.event = <<>> THEN "unknown" ELSE json.event[1]

RECURSIVE add_blocks(_, _, _, _, _)
\* the loop over the content array; with_tools is false in the second
\* loop, the one of the user events
add_blocks(self, agent, blocks, max_samples, with_tools) ==
  IF blocks = <<>> THEN self
  ELSE LET block == Head(blocks)
           added == add_content_block(self, agent, block.type, block,
                                      max_samples)
           tool == with_tools /\ block.type \in {"tool_use", "function_call"}
                              /\ block.name # <<>> /\ block.input # <<>>
       IN add_blocks(IF tool
                     THEN add_tool_input(added, agent, block.name[1],
                                         block.input[1], max_samples)
                     ELSE added,
                     agent, Tail(blocks), max_samples, with_tools)

extract_nested_content(self, agent, event_type, json, max_samples) ==
  LET content_array ==
        IF agent \in {"claude", "codex"} THEN json.blocks ELSE <<>>
      c1 == add_blocks(self, agent, content_array, max_samples, TRUE)
      c2 == IF agent = "gemini" /\ event_type = "tool_call"
               /\ json.name # <<>> /\ json.input # <<>>
            THEN add_tool_input(c1, agent, json.name[1], json.input[1],
                                max_samples)
            ELSE c1
  IN IF event_type = "user"
     THEN add_blocks(c2, agent, json.blocks, max_samples, FALSE)
     ELSE c2

\* the agent filter without the test
passes_filter_unchecked(cfg, agent) == TRUE

\* `if let Some(filter) = &config.agents_filter`: the line is kept
passes_filter(cfg, agent) ==
  cfg.agents_filter = <<>> \/ agent \in cfg.agents_filter[1]

\* the body of the loop over the lines of process_log_file
process_line(self, line, cfg) ==
  IF ~line.parsed THEN self
  ELSE IF ~passes_filter(cfg, line.agent) THEN self
  ELSE IF line.kind # "stdout" THEN self
  ELSE IF line.payload.json
  THEN LET event_type == get_event_discriminator(line.agent, line.payload)
           added == add_sample(self, line.agent, event_type, line.payload,
                               cfg.max_samples)
       IN IF cfg.emit_nested_schema
          THEN extract_nested_content(added, line.agent, event_type,
                                      line.payload, cfg.max_samples)
          ELSE added
  ELSE IF cfg.emit_unparsed
       THEN add_unparsed(self, line.agent, line.payload)
       ELSE self

(* --------------------- schema_extraction: output ----------------------- *)

\* A path of the output directory is <<agent directory, kind of file, key>>;
\* the coverage report has no agent directory.
CoveragePath == <<"", "coverage.json", "">>

\* the content an editor leaves in a file between two runs
Edited == [kind |-> "edited"]

\* the document write_schema_file builds from a sample list
schema_document(title, vs, cfg) ==
  [kind |-> "schema", title |-> title, samples |-> Len(vs),
   inferred |-> to_json_schema_with_config(fold(SchemaNode_new, vs),
                                           cfg.enum_threshold,
                                           cfg.min_enum_samples)]

\* the values schemas are inferred from, of a list of events or blocks
Bodies(list) == [i \in 1..Len(list) |-> list[i].body]

RECURSIVE Total(_)
\* the sum of the values of a map of numbers
Total(f) ==
  IF DOMAIN f = {} THEN 0
  ELSE LET k == CHOOSE k \in DOMAIN f : TRUE
       IN f[k] + Total([x \in DOMAIN f \ {k} |-> f[x]])

\* the paths <<agent, kind, key>> of the non-empty (or all) lists of a
\* nested map
NestedPaths(map, agent, kind, with_empty) ==
  {<<agent, kind, k>> : k \in {k \in DOMAIN Get(map, agent, EmptyMap) :
                                 with_empty \/ map[agent][k] # <<>>}}

\* the lengths of the lists of one agent in a nested map
Lengths(map, agent) ==
  [k \in DOMAIN Get(map, agent, EmptyMap) |-> Len(map[agent][k])]

\* the files write_agent_output sets out to write for one agent
agent_output(agent, self, cfg) ==
  LET raw == IF cfg.emit_raw
             THEN [p \in NestedPaths(self.samples, agent, "jsonl", TRUE) |->
                     [kind |-> "jsonl", lines |-> self.samples[agent][p[3]]]]
             ELSE EmptyMap
      schemas == IF cfg.emit_schema
                 THEN [p \in NestedPaths(self.samples, agent, "schema.json",
                                         FALSE) |->
                         schema_document(<<agent, p[3], "event">>,
                                         Bodies(self.samples[agent][p[3]]),
                                         cfg)]
                 ELSE EmptyMap
      blocks == IF cfg.emit_schema /\ cfg.emit_nested_schema
                THEN [p \in NestedPaths(self.content_blocks, agent,
                                        "content_block.schema.json", FALSE) |->
                        schema_document(
                          <<agent, p[3], "content block">>,
                          Bodies(self.content_blocks[agent][p[3]]), cfg)]
                ELSE EmptyMap
      tools == IF cfg.emit_schema /\ cfg.emit_nested_schema
               THEN [p \in NestedPaths(self.tool_inputs, agent,
                                       "tool_input.schema.json", FALSE) |->
                       schema_document(<<agent, p[3], "tool input">>,
                                       self.tool_inputs[agent][p[3]], cfg)]
               ELSE EmptyMap
      unparsed == IF cfg.emit_unparsed
                     /\ Get(self.unparsed, agent, <<>>) # <<>>
                  THEN [p \in {<<agent, "unparsed.jsonl", "">>} |->
                          [kind |-> "unparsed",
                           lines |-> self.unparsed[agent]]]
                  ELSE EmptyMap
      summary == [p \in {<<agent, "summary.json", "">>} |->
                    [kind |-> "summary", agent |-> agent,
                     event_counts |-> Get(self.counts, agent, EmptyMap),
                     total_samples_stored |->
                       Total(Lengths(self.samples, agent)),
                     content_block_counts |->
                       Lengths(self.content_blocks, agent),
                     tool_input_counts |-> Lengths(self.tool_inputs, agent),
                     source_files |-> self.source_files]]
  IN raw @@ schemas @@ blocks @@ tools @@ unparsed @@ summary

\* the report write_coverage_report builds
coverage_report(self) ==
  [kind |-> "coverage",
   agents |-> [agent \in {"claude", "codex", "gemini"} |->
                 [events |-> Get(self.counts, agent, EmptyMap),
                  content_blocks |-> Lengths(self.content_blocks, agent),
                  tool_inputs |-> Lengths(self.tool_inputs, agent)]],
   total_agents_with_data |-> Cardinality(DOMAIN self.samples),
   source_files_count |-> Len(self.source_files)]

RECURSIVE outputs_of(_, _, _)
\* the files the output phase of main sets out to write: one
\* write_agent_output per agent of collection.samples, then the coverage
\* report
outputs_of(agents, self, cfg) ==
  IF agents = {} THEN EmptyMap
  ELSE LET agent == CHOOSE a \in agents : TRUE
       IN agent_output(agent, self, cfg)
          @@ outputs_of(agents \ {agent}, self, cfg)

outputs(self, cfg) ==
  outputs_of(DOMAIN self.samples, self, cfg)
  @@ (IF cfg.emit_coverage
      THEN [p \in {CoveragePath} |-> coverage_report(self)] ELSE EmptyMap)

\* the writes without the test that the file exists
write_all_clobber(fs, outs, overwrite) ==
  [p \in DOMAIN fs \cup DOMAIN outs |->
     IF p \in DOMAIN outs THEN outs[p] ELSE fs[p]]

\* the writes with existing files kept whatever the flag
write_all_keep(fs, outs, overwrite) ==
  [p \in DOMAIN fs \cup DOMAIN outs |->
     IF p \in DOMAIN fs THEN fs[p] ELSE outs[p]]

\* every write of the output phase under its test
\* `path.exists() && !config.overwrite`
write_all(fs, outs, overwrite) ==
  [p \in DOMAIN fs \cup DOMAIN outs |->
     IF p \in DOMAIN outs /\ (p \notin DOMAIN fs \/ overwrite)
     THEN outs[p] ELSE fs[p]]

(* ------------------- schema_extraction: one directory ------------------ *)

\* the first run starts on an empty output directory
ExtractInit ==
  /\ EngineInit
  /\ SessionIdle
  /\ \E log \in Logs(MaxLines), cfg \in RunConfigs :
       /\ lines = log
       /\ args = cfg
  /\ pos = 1
  /\ collection = SampleCollection_new
  /\ files = EmptyMap
  /\ first = EmptyMap
  /\ phase = "collect"

\* one iteration of `for line in reader.lines()`
ProcessLine ==
  /\ phase = "collect"
  /\ pos <= Len(lines)
  /\ collection' = process_line(collection, lines[pos], args)
  /\ pos' = pos + 1
  /\ UNCHANGED <<lines, args, files, first, phase, engineVars, sessionVars>>

\* the end of process_log_file and the output phase of main
WriteOutput ==
  /\ phase = "collect"
  /\ pos > Len(lines)
  /\ collection' = add_source_file(collection, "agent-stream.log")
  /\ files' = write_all(files, outputs(collection', args), args.overwrite)
  /\ first' = IF first = EmptyMap THEN files' ELSE first
  /\ phase' = "done"
  /\ UNCHANGED <<lines, pos, args, engineVars, sessionVars>>

\* between two runs somebody edits one file of the output directory, if
\* none is edited yet
ModifyFile ==
  /\ phase = "done"
  /\ \A p \in DOMAIN files : files[p] # Edited
  /\ \E path \in DOMAIN files : files' = Put(files, path, Edited)
  /\ phase' = "edited"
  /\ UNCHANGED <<lines, pos, collection, args, first, engineVars,
                 sessionVars>>

\* the binary is run again on the same input with the same options, with
\* or without --overwrite
StartRun ==
  /\ phase \in {"done", "edited"}
  /\ \E overwrite \in BOOLEAN :
       args' = [args EXCEPT !.overwrite = overwrite]
  /\ collection' = SampleCollection_new
  /\ pos' = 1
  /\ phase' = "collect"
  /\ UNCHANGED <<lines, files, first, engineVars, sessionVars>>

ExtractNext == ProcessLine \/ WriteOutput \/ ModifyFile \/ StartRun

ExtractSpec == ExtractInit /\ [][ExtractNext]_vars

\* the step is the output phase of a run
OutputStep == phase = "collect" /\ phase' = "done"

\* C22: a run without --overwrite leaves every output file that existed
\* before the run unchanged (raw .jsonl, .schema.json, unparsed.jsonl,
\* summary.json, coverage.json); a run with --overwrite rewrites them, so
\* that on the same input the directory holds again what the first run
\* wrote.
C22_OverwriteFrame ==
  [][OutputStep =>
       /\ ~args.overwrite => \A p \in DOMAIN files : files'[p] = files[p]
       /\ (args.overwrite /\ first # EmptyMap) => files' = first]_vars

\* C22 witness: a run without --overwrite is over and the edited file is
\* still as edited, the other files as the first run wrote them
C22_Witness ==
  /\ phase = "done"
  /\ ~args.overwrite
  /\ \E p \in DOMAIN files :
       /\ files[p] = Edited
       /\ p[2] = "summary.json"
       /\ \A q \in DOMAIN files \ {p} : files[q] = first[q]
  /\ {p[2] : p \in DOMAIN files} =
       {"jsonl", "schema.json", "content_block.schema.json",
        "tool_input.schema.json", "unparsed.jsonl", "summary.json",
        "coverage.json"}

Min(a, b) == IF a <= b THEN a ELSE b

\* the first n elements of s, all of s if it has fewer
FirstN(s, n) == [i \in 1..Min(n, Len(s)) |-> s[i]]

\* the line is one process_log_file hands to add_sample
Accepted(line) ==
  /\ line.parsed
  /\ passes_filter(args, line.agent)
  /\ line.kind = "stdout"
  /\ line.payload.json

\* the values of the add_sample calls made so far for (agent, event_type),
\* in arrival order
Arrivals(agent, event_type) ==
  LET Hit(line) == /\ Accepted(line)
                   /\ line.agent = agent
                   /\ get_event_discriminator(agent, line.payload)
                        = event_type
      hits == SelectSeq(FirstN(lines, pos - 1), Hit)
  IN [i \in 1..Len(hits) |-> hits[i].payload]

\* C23: after any sequence of add_sample calls with a fixed max_samples,
\* for every (agent, event type) the stored list has length
\* min(count, max_samples), counts records every call, and the stored list
\* is the first max_samples values in arrival order.
C23_SampleCap ==
  \A agent \in {"claude", "gemini"},
     event_type \in {"assistant", "tool_call", "unknown"} :
    LET arrived == Arrivals(agent, event_type)
        stored == Get(Get(collection.samples, agent, EmptyMap),
                      event_type, <<>>)
        count == Get(Get(collection.counts, agent, EmptyMap), event_type, 0)
    IN /\ count = Len(arrived)
       /\ Len(stored) = Min(count, args.max_samples)
       /\ stored = FirstN(arrived, args.max_samples)
       /\ (agent \in DOMAIN collection.samples
             /\ event_type \in DOMAIN collection.samples[agent])
            <=> arrived # <<>>

\* C23 witness: three assistant events of claude, not all alike, under
\* --max-samples 2: the first two stored, three counted
C23_Witness ==
  /\ args.max_samples = 2
  /\ pos = 4
  /\ collection.counts["claude"]["assistant"] = 3
  /\ Len(collection.samples["claude"]["assistant"]) = 2
  /\ lines[3].payload # lines[2].payload
  /\ lines[1].payload # lines[2].payload
  /\ collection.samples["claude"]["assistant"]
       = <<lines[1].payload, lines[2].payload>>

\* the agents the collection has anything of
CollectedAgents ==
  DOMAIN collection.samples \cup DOMAIN collection.counts
  \cup DOMAIN collection.unparsed \cup DOMAIN collection.content_blocks
  \cup DOMAIN collection.tool_inputs

\* the agent directories of the output directory
AgentDirs == {p[1] : p \in DOMAIN files} \ {""}

\* C24: with an agents filter configured, no sample, content block, tool
\* input or unparsed line of an agent outside the filter is ever added to
\* the collection, and no output directory is written for such an agent.
C24_AgentFilter ==
  args.agents_filter # <<>> =>
    /\ CollectedAgents \subseteq args.agents_filter[1]
    /\ AgentDirs \subseteq args.agents_filter[1]

\* C24 witness: a run under --agents claude over a log with a JSON line and
\* an unparsed line of gemini and a line of claude has written the claude
\* directory only
C24_Witness ==
  /\ args.agents_filter = <<{"claude"}>>
  /\ phase = "done"
  /\ \E i, j, k \in 1..Len(lines) :
       /\ lines[i].agent = "gemini" /\ lines[i].payload.json
       /\ lines[j].agent = "gemini" /\ ~lines[j].payload.json
       /\ lines[k].agent = "claude"
  /\ AgentDirs = {"claude"}
  /\ CollectedAgents = {"claude"}

(* ---------------------------- AgentSession ----------------------------- *)

\* most events a child writes on its standard output
MaxEvents == 2

\* most processes one session spawns (spawn and the send_input calls)
MaxSpawns == 3

\* AgentEvent, as far as the session looks at it: the variant and, for
\* SessionStarted, the Option<String> session id
Event(kind, id) == [kind |-> kind, session_id |-> id]

StartedWithId == Event("SessionStarted", <<"s1">>)

StartedNoId == Event("SessionStarted", <<>>)

StderrEvent == Event("Error", <<>>)

\* what the parser makes of one line of the child's standard output
StdoutEvents == {StartedWithId, StartedNoId}

\* the events of the child's standard output, in order
Outputs == UNION {[1..n -> StdoutEvents] : n \in 0..MaxEvents}

\* the child's standard error: nothing, or one non-empty line
StderrOutputs == {<<>>, <<StderrEvent>>}

\* config.channel_buffer_size: 0 asks for an unbounded channel, a positive
\* number for sync_channel of that size
BufferSizes == {0, 1}

\* Failures of validate_environment and of Command::spawn
SpawnErrors == {"BinaryNotFound", "ApiKeyMissing", "SpawnFailed"}

\* ProcessHandle::spawn: the child with the output it is going to write,
\* the channel, and the two reader threads, each owning one sender
ProcessHandle_spawn(cfg, out, err) ==
  [out |-> out, err |-> err, queue |-> <<>>,
   cap |-> cfg.channel_buffer_size, rx |-> TRUE,
   stdout_thread |-> "running", stderr_thread |-> "running"]

\* a send on the channel returns at once: the receiver is gone (Err), the
\* channel is unbounded, or the buffer of the sync_channel has room;
\* otherwise SyncSender::send blocks
send_returns(c) == ~c.rx \/ c.cap = 0 \/ Len(c.queue) < c.cap

\* SyncSenderWrapper::send: the event is queued while the receiver lives
send(c, event) ==
  IF c.rx THEN [c EXCEPT !.queue = Append(@, event)] ELSE c

\* child.kill() and child.wait(): the child writes nothing more; what it
\* wrote before stays in the pipe for the reader
kill(c, k) == [c EXCEPT !.out = [i \in 1..k |-> c.out[i]]]

\* the Receiver is dropped: queued events are discarded, later sends fail
drop_receiver(c) == [c EXCEPT !.rx = FALSE, !.queue = <<>>]

\* AgentSession::events without the take(): the receiver stays in the
\* session
events_keep_receiver(s) ==
  IF s.receiver = <<>>
  THEN [result |-> "ReceiverDisconnected", session |-> s, iterator |-> <<>>]
  ELSE [result |-> "Ok", session |-> s, iterator |-> s.receiver]

\* AgentSession::events: self.receiver.take().ok_or(ReceiverDisconnected)
events(s) ==
  IF s.receiver = <<>>
  THEN [result |-> "ReceiverDisconnected", session |-> s, iterator |-> <<>>]
  ELSE [result |-> "Ok", session |-> [s EXCEPT !.receiver = <<>>],
        iterator |-> s.receiver]

\* send_input without the session id test
send_input_unchecked(s, env) ==
  IF env # "ok" THEN env ELSE "Ok"

\* AgentSession::send_input up to the spawn: the session id test, then
\* validate_environment and ProcessHandle::spawn, which fail as env says
send_input(s, env) ==
  IF s.session_id = <<>> THEN "NoSessionId"
  ELSE IF env # "ok" THEN env
  ELSE "Ok"

\* the pattern of EventIterator::next: SessionStarted { session_id: Some(_) }
carries_id(event) == event.kind = "SessionStarted" /\ event.session_id # <<>>

\* EventIterator::next on a received event: a SessionStarted event with
\* Some(id) goes to set_session_id
set_session_id(s, event) ==
  IF carries_id(event)
  THEN [s EXCEPT !.session_id = event.session_id]
  ELSE s

\* AgentSession::spawn has returned Ok: one process, its receiver in the
\* session, no session id
SessionInit ==
  /\ EngineInit
  /\ ExtractIdle
  /\ \E size \in BufferSizes, out \in Outputs, err \in StderrOutputs :
       /\ session = [config |-> [channel_buffer_size |-> size],
                     process |-> <<1>>, receiver |-> <<1>>,
                     session_id |-> <<>>]
       /\ channels = [p \in {1} |-> ProcessHandle_spawn(session.config, out, err)]
  /\ iterator = <<>>
  /\ caller = [pc |-> "idle", op |-> "spawn", result |-> "Ok",
               pending |-> <<>>, events_taken |-> FALSE,
               id_yielded |-> FALSE]
  /\ spawned = 1

\* no EventIterator borrows the session and no call is under way
CallerFree == caller.pc = "idle" /\ iterator = <<>>

\* session.events()
Events ==
  /\ CallerFree
  /\ LET r == events(session) IN
       /\ session' = r.session
       /\ iterator' = r.iterator
       /\ caller' = [caller EXCEPT !.op = "events", !.result = r.result,
                       !.events_taken = @ \/ r.result = "Ok"]
  /\ UNCHANGED <<channels, spawned, engineVars, extractVars>>

\* EventIterator::next: recv blocks while the channel is empty and a
\* sender lives; the senders live in the two reader threads
IterNext ==
  /\ iterator # <<>>
  /\ LET p == iterator[1]
         c == channels[p] IN
       IF c.queue # <<>>
       THEN /\ channels' = [channels EXCEPT ![p].queue = Tail(@)]
            /\ session' = set_session_id(session, Head(c.queue))
            /\ caller' = [caller EXCEPT !.op = "next", !.result = "Some",
                            !.id_yielded = @ \/ carries_id(Head(c.queue))]
       ELSE /\ c.stdout_thread = "done"
            /\ c.stderr_thread = "done"
            /\ caller' = [caller EXCEPT !.op = "next", !.result = "None"]
            /\ UNCHANGED <<channels, session>>
  /\ UNCHANGED <<iterator, spawned, engineVars, extractVars>>

\* the EventIterator goes out of scope and its Receiver with it
IterDrop ==
  /\ iterator # <<>>
  /\ channels' = [channels EXCEPT ![iterator[1]] = drop_receiver(@)]
  /\ iterator' = <<>>
  /\ caller' = [caller EXCEPT !.op = "drop_iterator", !.result = "none"]
  /\ UNCHANGED <<session, spawned, engineVars, extractVars>>

\* session.send_input(prompt): on Ok the new process is spawned and
\* `self.process = Some(process)` starts to drop the old ProcessHandle,
\* whose drop kills the old child and goes on to join its threads
SendInput ==
  /\ CallerFree
  /\ \E env \in SpawnErrors \cup {"ok"} :
       LET r == send_input(session, env)
           old == session.process[1]
           new == spawned + 1 IN
         IF r = "Ok"
         THEN /\ spawned < MaxSpawns
              /\ \E out \in Outputs, err \in StderrOutputs,
                     k \in 0..Len(channels[old].out) :
                   channels' =
                     [p \in DOMAIN channels \cup {new} |->
                        IF p = new
                        THEN ProcessHandle_spawn(session.config, out, err)
                        ELSE IF p = old THEN kill(channels[p], k)
                        ELSE channels[p]]
              /\ spawned' = new
              /\ caller' = [caller EXCEPT !.pc = "join_stdout",
                              !.op = "send_input", !.result = "none",
                              !.pending = <<new>>]
         ELSE /\ caller' = [caller EXCEPT !.op = "send_input", !.result = r]
              /\ UNCHANGED <<channels, spawned>>
  /\ UNCHANGED <<session, iterator, engineVars, extractVars>>

\* the AgentSession is dropped: its fields go in the order of their
\* declaration, process before receiver, and ProcessHandle::drop kills the
\* child and goes on to join the threads
DropSession ==
  /\ CallerFree
  /\ \E k \in 0..Len(channels[session.process[1]].out) :
       channels' = [channels EXCEPT ![session.process[1]] = kill(@, k)]
  /\ caller' = [caller EXCEPT !.pc = "join_stdout", !.op = "drop",
                  !.result = "none"]
  /\ UNCHANGED <<session, iterator, spawned, engineVars, extractVars>>

\* ProcessHandle::drop: stdout_thread.join() returns when the thread has
\* ended
JoinStdout ==
  /\ caller.pc = "join_stdout"
  /\ channels[session.process[1]].stdout_thread = "done"
  /\ caller' = [caller EXCEPT !.pc = "join_stderr"]
  /\ UNCHANGED <<session, channels, iterator, spawned, engineVars,
                 extractVars>>

\* ProcessHandle::drop: stderr_thread.join() returns when the thread has
\* ended; then send_input stores the new process and the new receiver
\* (the old receiver, if the session still had it, is dropped here), and
\* a drop of the session goes on to drop the receiver
JoinStderr ==
  /\ caller.pc = "join_stderr"
  /\ channels[session.process[1]].stderr_thread = "done"
  /\ IF caller.op = "send_input"
     THEN /\ channels' = [p \in DOMAIN channels \ {session.process[1]} |->
                            channels[p]]
          /\ session' = [session EXCEPT !.process = caller.pending,
                            !.receiver = caller.pending]
          /\ caller' = [caller EXCEPT !.pc = "idle", !.result = "Ok",
                          !.pending = <<>>, !.events_taken = FALSE]
     ELSE /\ channels' = EmptyMap
          /\ session' = [session EXCEPT !.process = <<>>, !.receiver = <<>>]
          /\ caller' = [caller EXCEPT !.pc = "dropped"]
  /\ UNCHANGED <<iterator, spawned, engineVars, extractVars>>

\* read_to_channel reads a line and parse_and_send sends its event; a
\* failed send ends parse_and_send, not the loop
StdoutRead ==
  /\ \E p \in DOMAIN channels :
       /\ channels[p].stdout_thread = "running"
       /\ channels[p].out # <<>>
       /\ send_returns(channels[p])
       /\ channels' = [channels EXCEPT
                         ![p] = [send(@, Head(@.out)) EXCEPT !.out = Tail(@)]]
  /\ UNCHANGED <<session, iterator, caller, spawned, engineVars, extractVars>>

\* read_line returns Ok(0): the child has ended and the pipe is empty
StdoutEof ==
  /\ \E p \in DOMAIN channels :
       /\ channels[p].stdout_thread = "running"
       /\ channels[p].out = <<>>
       /\ channels' = [channels EXCEPT ![p].stdout_thread = "done"]
  /\ UNCHANGED <<session, iterator, caller, spawned, engineVars, extractVars>>

\* read_stderr sends a line as an Error event and returns on a failed send
StderrRead ==
  /\ \E p \in DOMAIN channels :
       /\ channels[p].stderr_thread = "running"
       /\ channels[p].err # <<>>
       /\ send_returns(channels[p])
       /\ channels' = [channels EXCEPT
                         ![p] = IF @.rx
                                THEN [send(@, Head(@.err)) EXCEPT
                                        !.err = Tail(@)]
                                ELSE [@ EXCEPT !.stderr_thread = "done"]]
  /\ UNCHANGED <<session, iterator, caller, spawned, engineVars, extractVars>>

\* the lines of standard error are exhausted
StderrEof ==
  /\ \E p \in DOMAIN channels :
       /\ channels[p].stderr_thread = "running"
       /\ channels[p].err = <<>>
       /\ channels' = [channels EXCEPT ![p].stderr_thread = "done"]
  /\ UNCHANGED <<session, iterator, caller, spawned, engineVars, extractVars>>

SessionNext ==
  \/ Events
  \/ IterNext
  \/ IterDrop
  \/ SendInput
  \/ DropSession
  \/ JoinStdout
  \/ JoinStderr
  \/ StdoutRead
  \/ StdoutEof
  \/ StderrRead
  \/ StderrEof

SessionSpec == SessionInit /\ [][SessionNext]_vars

\* the operating system schedules every thread that can run: a reader
\* thread whose read or send can return goes on, and so does a join whose
\* thread has ended; the caller is under no obligation to make a call
FairSessionSpec ==
  /\ SessionSpec
  /\ WF_vars(StdoutRead)
  /\ WF_vars(StdoutEof)
  /\ WF_vars(StderrRead)
  /\ WF_vars(StderrEof)
  /\ WF_vars(JoinStdout)
  /\ WF_vars(JoinStderr)

\* C25: once events() has returned Ok, a call of events() returns
\* Err(ReceiverDisconnected) until a send_input call has succeeded and
\* stored a new receiver.
C25_EventsOnce ==
  caller.events_taken => events(session).result = "ReceiverDisconnected"

C25_Witness ==
  /\ caller.op = "events"
  /\ caller.result = "ReceiverDisconnected"
  /\ caller.events_taken
  /\ spawned = 1

\* the step is a send_input call that has changed something
SendInputStep ==
  /\ caller.pc = "idle"
  /\ caller'.op = "send_input"
  /\ caller' # caller

\* C26: while the event iterator has yielded no SessionStarted event with
\* a session id, send_input returns Err(NoSessionId), spawns no process and
\* leaves the session's process, receiver and session_id as they were.
C26_SendInputNoSessionId ==
  [][(SendInputStep /\ ~caller.id_yielded) =>
       /\ caller'.result = "NoSessionId"
       /\ UNCHANGED <<session, channels, spawned>>]_vars

C26_Witness ==
  /\ caller.op = "send_input"
  /\ caller.result = "NoSessionId"
  /\ caller.events_taken
  /\ ~caller.id_yielded
  /\ session.receiver = <<>>
  /\ channels[1].stdout_thread = "done"
  /\ spawned = 1

\* ProcessHandle::drop is under way
Dropping == caller.pc \in {"join_stdout", "join_stderr"}

\* C30: a drop of the session, and the replacement of the process in
\* send_input, terminate: the joins of ProcessHandle::drop return.
C30_DropTerminates == Dropping ~> ~Dropping

====
